---- MODULE Spec2Model ----
(***************************************************************************)
(* Model of the Bitcoin last-traded-price service (src/main.go): the       *)
(* shared priceCache, the read handler handleLTP, the refresh cycle        *)
(* updatePriceCache with its batched fetch and per-pair fallback, and      *)
(* processPairResponse.  Strings are sequences of one-character strings,   *)
(* so that fmt.Sprintf, strings.ToUpper and fmt.Sscanf are computed.       *)
(***************************************************************************)
EXTENDS Integers, Sequences, FiniteSets, TLC

(* ------------------------------ bounds --------------------------------- *)
\* number of goroutines a stale read can have spawned and still running
MaxSpawn == 1
\* number of 30-second ticks of the clock after process start
MaxTicks == 1

(* ------------------------- program constants --------------------------- *)
maxRetries == 3
\* seconds: the ticker period and the staleness threshold (time.Minute)
TickerPeriod == 30
Minute == 60

\* milliseconds: the unit of the backoff (100 * time.Millisecond) and the
\* argument of rand.Intn
BackoffUnit == 100
JitterRange == 100

(* ------------------------------ strings -------------------------------- *)
Lower == <<"a","b","c","d","e","f","g","h","i","j","k","l","m",
           "n","o","p","q","r","s","t","u","v","w","x","y","z">>
Upper == <<"A","B","C","D","E","F","G","H","I","J","K","L","M",
           "N","O","P","Q","R","S","T","U","V","W","X","Y","Z">>
Digits == <<"0","1","2","3","4","5","6","7","8","9">>

\* strings.ToUpper, character by character
ToUpperChar(c) ==
    IF \E i \in 1..Len(Lower) : Lower[i] = c
    THEN Upper[CHOOSE i \in 1..Len(Lower) : Lower[i] = c]
    ELSE c

ToUpper(s) == [i \in 1..Len(s) |-> ToUpperChar(s[i])]

IsDigit(c) == \E i \in 1..Len(Digits) : Digits[i] = c

DigitVal(c) == (CHOOSE i \in 1..Len(Digits) : Digits[i] = c) - 1

\* the length of the longest prefix of s made of digits
RECURSIVE DigitPrefix(_)
DigitPrefix(s) ==
    IF s = <<>> \/ ~IsDigit(Head(s)) THEN 0 ELSE 1 + DigitPrefix(Tail(s))

RECURSIVE DecimalValue(_, _)
DecimalValue(s, n) ==
    IF n = 0 THEN 0 ELSE 10 * DecimalValue(s, n - 1) + DigitVal(s[n])

\* var price float64; fmt.Sscanf(s, "%f", &price): the leading number of s
\* is scanned into price; when s starts with no number the scan fails, the
\* error is dropped and price keeps its zero value.
Sscanf(s) ==
    LET n == DigitPrefix(s)
    IN  IF n = 0 THEN [ok |-> FALSE, price |-> 0]
        ELSE [ok |-> TRUE, price |-> DecimalValue(s, n)]

(* --------------------------- supported pairs --------------------------- *)
XBT == <<"X","B","T">>
USD == <<"U","S","D">>
CHF == <<"C","H","F">>
EUR == <<"E","U","R">>
BTC == <<"B","T","C">>

Display(quote) == BTC \o <<"/">> \o quote

supportedPairs ==
    (Display(USD) :> [Base |-> XBT, Quote |-> USD, Display |-> Display(USD)]) @@
    (Display(CHF) :> [Base |-> XBT, Quote |-> CHF, Display |-> Display(CHF)]) @@
    (Display(EUR) :> [Base |-> XBT, Quote |-> EUR, Display |-> Display(EUR)])

\* Pair{}: the zero value, passed for a combined response
ZeroPair == [Base |-> <<>>, Quote |-> <<>>, Display |-> <<>>]

\* fmt.Sprintf("%s%s", Base, Quote) and fmt.Sprintf("X%sZ%s", Base, Quote)
krakenPair(pairInfo) == pairInfo.Base \o pairInfo.Quote

altKrakenPair(pairInfo) == <<"X">> \o pairInfo.Base \o <<"Z">> \o pairInfo.Quote

(* ------------------------- upstream responses -------------------------- *)
\* KrakenTickerResponse as decoded from a body; decodes = FALSE stands for a
\* body json.Decode rejects.  A KrakenPair is [C |-> <<price, volume>>].
NoResult == [k \in {} |-> [C |-> <<>>]]

KrakenBody(decodes, error, result) ==
    [decodes |-> decodes, Error |-> error, Result |-> result]

NilBody == KrakenBody(FALSE, <<>>, NoResult)

\* {"error":["E"],"result":{}}
ErrorBody == KrakenBody(TRUE, << <<"E">> >>, NoResult)

\* {"error":[],"result":{"XXBTZUSD":{"c":["7","1"]}}}
MarkedBody ==
    KrakenBody(TRUE, <<>>,
        (<<"X","X","B","T","Z","U","S","D">> :> [C |-> << <<"7">>, <<"1">> >>]))

\* every pair under its plain key
PlainBody ==
    KrakenBody(TRUE, <<>>,
        (<<"X","B","T","U","S","D">> :> [C |-> << <<"7">>, <<"1">> >>]) @@
        (<<"X","B","T","C","H","F">> :> [C |-> << <<"7">>, <<"1">> >>]) @@
        (<<"X","B","T","E","U","R">> :> [C |-> << <<"7">>, <<"1">> >>]))

\* a price that is no number (USD), an empty c array (EUR), a pair under
\* both keys with the plain one holding no price (CHF), an unknown symbol
OddBody ==
    KrakenBody(TRUE, <<>>,
        (<<"X","B","T","U","S","D">> :> [C |-> << <<"a","b","c">>, <<"1">> >>]) @@
        (<<"X","B","T","E","U","R">> :> [C |-> <<>>]) @@
        (<<"X","B","T","C","H","F">> :> [C |-> <<>>]) @@
        (<<"X","X","B","T","Z","C","H","F">> :> [C |-> << <<"5">>, <<"1">> >>]) @@
        (<<"X","E","T","H","Z","U","S","D">> :> [C |-> << <<"9">>, <<"1">> >>]))

Bodies == {NilBody, ErrorBody, MarkedBody, PlainBody, OddBody}

\* what client.Get returns: (nil, err) or (resp, nil)
GetOutcomes ==
    {[err |-> TRUE, body |-> NilBody]} \cup {[err |-> FALSE, body |-> b] : b \in Bodies}

\* a key of the result holds a price that scans as a number
HasPrice(result, key) ==
    /\ key \in DOMAIN result
    /\ Len(result[key].C) >= 1
    /\ Sscanf(result[key].C[1]).ok

PriceAt(result, key) == Sscanf(result[key].C[1]).price

\* the result names every supported pair, under the plain or the marked
\* key, and every key of a pair holds a positive price
FullPositive(result) ==
    \A k \in DOMAIN supportedPairs :
        LET keys == {krakenPair(supportedPairs[k]), altKrakenPair(supportedPairs[k])}
                        \cap DOMAIN result
        IN  /\ keys # {}
            /\ \A key \in keys : HasPrice(result, key) /\ PriceAt(result, key) > 0

(* ------------------------ processPairResponse -------------------------- *)
\* only the plain key probed
FindTickerPlainOnly(result, pairInfo) ==
    IF krakenPair(pairInfo) \in DOMAIN result
    THEN [found |-> TRUE, ticker |-> result[krakenPair(pairInfo)]]
    ELSE [found |-> FALSE, ticker |-> [C |-> <<>>]]

\* "Try both formats": the plain key first, else the marked key
FindTicker(result, pairInfo) ==
    IF krakenPair(pairInfo) \in DOMAIN result
    THEN [found |-> TRUE, ticker |-> result[krakenPair(pairInfo)]]
    ELSE IF altKrakenPair(pairInfo) \in DOMAIN result
         THEN [found |-> TRUE, ticker |-> result[altKrakenPair(pairInfo)]]
         ELSE [found |-> FALSE, ticker |-> [C |-> <<>>]]

\* found && len(ticker.C) >= 1
Resolves(result, pairInfo) ==
    LET f == FindTicker(result, pairInfo)
    IN  f.found /\ Len(f.ticker.C) >= 1

\* the price never scanned: the amount keeps its zero value
NewEntryUnscanned(result, display, pairInfo) == [Pair |-> display, Amount |-> 0]

\* LTPData{Pair: display, Amount: price}, price scanned from ticker.C[0]
NewEntry(result, display, pairInfo) ==
    [Pair |-> display,
     Amount |-> Sscanf(FindTicker(result, pairInfo).ticker.C[1]).price]

\* the entry stored under the upstream symbol it was found under
StoreKeyUpstream(result, display, pairInfo) ==
    IF krakenPair(pairInfo) \in DOMAIN result
    THEN krakenPair(pairInfo) ELSE altKrakenPair(pairInfo)

\* lines 294 and 327: the cache key an entry is stored under
StoreKey(result, display, pairInfo) == display

\* the body of processPairResponse, as the new value of priceCache.data
processPairResponse(d, singlePair, krakenResponse) ==
    LET result == krakenResponse.Result
        pairs == IF singlePair.Display # <<>>
                 THEN {singlePair}
                 ELSE {supportedPairs[k] : k \in DOMAIN supportedPairs}
        hit == {pr \in pairs : Resolves(result, pr)}
        keys == {StoreKey(result, pr.Display, pr) : pr \in hit}
    IN  [k \in DOMAIN d \cup keys |->
            IF k \in keys
            THEN LET pr == CHOOSE x \in hit : StoreKey(result, x.Display, x) = k
                 IN  NewEntry(result, pr.Display, pr)
            ELSE d[k]]

(* ------------------------------ handleLTP ------------------------------ *)
\* all orders a Go map range can yield the keys of supportedPairs in
KeyOrders ==
    LET n == Cardinality(DOMAIN supportedPairs)
    IN  {s \in [1..n -> DOMAIN supportedPairs] :
            \A i, j \in 1..n : s[i] = s[j] => i = j}

\* the default dropped: no query value, no pair
RequestedPairsAsGiven(q) == {q}

\* lines 89-97: the query values, or every supported pair when there is none
RequestedPairs(q) == IF Len(q) = 0 THEN KeyOrders ELSE {q}

\* lines 106-115: the loop that builds response.LTP
RECURSIVE Snapshot(_, _)
Snapshot(requestedPairs, d) ==
    IF requestedPairs = <<>> THEN <<>>
    ELSE LET pairName == ToUpper(Head(requestedPairs))
         IN  (IF pairName \in DOMAIN supportedPairs /\ pairName \in DOMAIN d
              THEN <<d[pairName]>> ELSE <<>>)
             \o Snapshot(Tail(requestedPairs), d)

\* time.Since(priceCache.lastUpdated) > time.Minute
IsStale(t, last) == t - last > Minute

\* LTPData{}: what a map read yields for a key that is not there
ZeroEntry == [Pair |-> <<>>, Amount |-> 0]

EntryOrZero(d, k) == IF k \in DOMAIN d THEN d[k] ELSE ZeroEntry

\* what a read that races with the replacement of an entry can find: the
\* entry before, the entry after, or fields of both
Torn(old, new) == {[Pair |-> a.Pair, Amount |-> b.Amount] : a, b \in {old, new}}

\* the maps a reader can find while processPairResponse is between its Lock
\* and its Unlock and is taking d to post: any of the keys added, and for
\* each key whatever the race leaves
MidWrite(d, post) ==
    UNION { {m \in [S -> UNION {Torn(EntryOrZero(d, k), post[k]) : k \in S}] :
                \A k \in S : m[k] \in Torn(EntryOrZero(d, k), post[k])} :
            S \in {T \in SUBSET DOMAIN post : DOMAIN d \subseteq T} }

(* ------------------------------- state --------------------------------- *)
\* the goroutines that call updatePriceCache: main and then its ticker
\* loop (Ticker), and the goroutines spawned by stale reads
Ticker == 0
Goroutines == 1..MaxSpawn
Refreshers == {Ticker} \cup Goroutines
\* the request being served by handleLTP
Readers == {1}

\* the process clock when main starts: later than the zero time.Time by
\* more than the staleness threshold
StartTime == Minute + TickerPeriod

VARIABLES
    now,            \* time.Now(), in seconds
    tickPending,    \* a tick waits in ticker.C
    serving,        \* main has reached http.ListenAndServe
    inbox,          \* the query strings that requests carry
    rnd,            \* the values rand.Intn(100) yields in this run
    data,           \* priceCache.data
    lastUpdated,    \* priceCache.lastUpdated
    updateRunning,  \* priceCache.updateRunning
    wlock,          \* the holder of priceCache's write lock, if any
    rlock,          \* the holders of priceCache's read lock
    u,              \* per refresher: position and locals of updatePriceCache
    cyc,            \* per refresher: history of its current cycle
    h               \* per reader: position and locals of handleLTP

vars == <<now, tickPending, serving, inbox, rnd, data, lastUpdated, updateRunning,
          wlock, rlock, u, cyc, h>>

\* sleep: the milliseconds the attempt about to be made sleeps first
IdleU == [pc |-> "idle", attempt |-> 0, sleep |-> 0, resp |-> NilBody,
          todo |-> {}, cur |-> ZeroPair]

\* history of a cycle, kept from admission to the deferred clearing: the
\* exit path taken, whether an upstream call has returned a response,
\* whether lastUpdated has been written, and whether the combined response
\* processed held a positive price for every supported pair
NoCycle == [path |-> "none", anyOk |-> FALSE, marked |-> FALSE, full |-> FALSE]

IdleH == [pc |-> "idle", query |-> <<>>, requestedPairs |-> <<>>,
          response |-> <<>>, needsUpdate |-> FALSE]

\* a write lock that does not wait for the readers to leave
CanLockOverReaders == wlock = {}

\* priceCache.Lock() can be taken
CanLock == wlock = {} /\ rlock = {}

\* where a refresher goes when updatePriceCache returns
Returned(p) == IF p = Ticker THEN "wait" ELSE "idle"

\* the positions from admission to the deferred clearing of updateRunning
AdmittedPcs == {"batch", "procLock", "procBody", "fallback", "single",
                "markLock", "markBody", "defer", "deferBody"}

Admitted(p) == u[p].pc \in AdmittedPcs

(* --------------------------- updatePriceCache --------------------------- *)
\* 1 << attempt
RECURSIVE ShiftLeft(_)
ShiftLeft(attempt) == IF attempt = 0 THEN 1 ELSE 2 * ShiftLeft(attempt - 1)

\* the exponent counted from the first retry: 1 << (attempt - 1)
backoffTimeFromBase(attempt) ==
    IF attempt > 0 THEN BackoffUnit * ShiftLeft(attempt - 1) ELSE 0

\* lines 174-176 and 204-205: no sleep before attempt 0, else
\* backoffTime := time.Duration(100*(1<<attempt)) * time.Millisecond
backoffTime(attempt) ==
    IF attempt > 0 THEN BackoffUnit * ShiftLeft(attempt) ELSE 0

\* lines 177 and 206: the range of rand.Intn(100)
Jitters == 0..(JitterRange - 1)

\* line 130: priceCache.Lock()
Call(p) ==
    /\ u[p].pc = "call"
    /\ CanLock
    /\ wlock' = {p}
    /\ u' = [u EXCEPT ![p].pc = "admit"]
    /\ UNCHANGED <<now, tickPending, serving, inbox, rnd, data, lastUpdated,
                   updateRunning, rlock, cyc, h>>

\* the admission test dropped: a call is admitted whatever the flag says
DeniedNever(running) == FALSE

\* line 131: the test that denies admission
Denied(running) == running

\* the admission that returns to the caller with the write lock still held
AdmitKeepsLock(p) ==
    /\ u[p].pc = "admit"
    /\ IF Denied(updateRunning)
       THEN /\ u' = [u EXCEPT ![p] = [IdleU EXCEPT !.pc = Returned(p)]]
            /\ serving' = (serving \/ p = Ticker)
            /\ wlock' = {}
            /\ UNCHANGED <<updateRunning, cyc>>
       ELSE /\ updateRunning' = TRUE
            /\ u' = [u EXCEPT ![p].pc = "batch", ![p].attempt = 0]
            /\ cyc' = [cyc EXCEPT ![p] = [NoCycle EXCEPT !.path = "running"]]
            /\ UNCHANGED <<serving, wlock>>
    /\ UNCHANGED <<now, tickPending, inbox, rnd, data, lastUpdated, rlock, h>>

\* lines 131-136: the admission check, under the lock
Admit(p) ==
    /\ u[p].pc = "admit"
    /\ wlock' = {}
    /\ IF Denied(updateRunning)
       THEN /\ u' = [u EXCEPT ![p] = [IdleU EXCEPT !.pc = Returned(p)]]
            /\ serving' = (serving \/ p = Ticker)
            /\ UNCHANGED <<updateRunning, cyc>>
       ELSE /\ updateRunning' = TRUE
            /\ u' = [u EXCEPT ![p].pc = "batch", ![p].attempt = 0]
            /\ cyc' = [cyc EXCEPT ![p] = [NoCycle EXCEPT !.path = "running"]]
            /\ UNCHANGED serving
    /\ UNCHANGED <<now, tickPending, inbox, rnd, data, lastUpdated, rlock, h>>

\* the flag cleared by hand on the normal returns only: the return on an
\* upstream error list leaves updatePriceCache at once
ExitPcSkipsClear(p, path) ==
    IF path = "upstreamError" THEN Returned(p) ELSE "defer"

\* where a return statement of an admitted cycle leads: the deferred
\* function of lines 138-142
ExitPc(p, path) == "defer"

\* an upstream error list answered by asking again
AfterBatchRetries(p, body) ==
    IF ~body.decodes THEN [pc |-> ExitPc(p, "decodeError"), path |-> "decodeError"]
    ELSE IF Len(body.Error) > 0
         THEN [pc |-> "batch", path |-> "running"]
         ELSE [pc |-> "procLock", path |-> "batch"]

\* lines 248-259, after a combined request that returned a response: return
\* on a decode error or on an upstream error list, else call
\* processPairResponse(Pair{}, krakenResponse)
AfterBatch(p, body) ==
    IF ~body.decodes THEN [pc |-> ExitPc(p, "decodeError"), path |-> "decodeError"]
    ELSE IF Len(body.Error) > 0
         THEN [pc |-> ExitPc(p, "upstreamError"), path |-> "upstreamError"]
         ELSE [pc |-> "procLock", path |-> "batch"]

\* lines 173-188 and 246-259: one attempt of the combined request, after the
\* sleep that is due (the sleep of the next attempt is drawn when this one
\* fails).  After the last failed attempt, line
\* 191 enters the per-pair fallback; a response ends the loop and is decoded.
BatchGet(p) ==
    /\ u[p].pc = "batch"
    /\ \E out \in GetOutcomes :
          IF out.err
          THEN /\ IF u[p].attempt + 1 < maxRetries
                  THEN /\ \E jitter \in rnd :
                             u' = [u EXCEPT ![p].attempt = @ + 1,
                                            ![p].sleep = backoffTime(u[p].attempt + 1)
                                                         + jitter]
                       /\ UNCHANGED cyc
                  ELSE /\ u' = [u EXCEPT ![p].pc = "fallback", ![p].attempt = 0,
                                         ![p].sleep = 0,
                                         ![p].todo = DOMAIN supportedPairs]
                       /\ cyc' = [cyc EXCEPT ![p].path = "fallback"]
          ELSE LET a == AfterBatch(p, out.body)
               IN  /\ u' = [u EXCEPT ![p].pc = a.pc, ![p].attempt = 0,
                                     ![p].sleep = 0,
                                     ![p].resp = IF a.pc = "procLock"
                                                 THEN out.body ELSE NilBody]
                   /\ cyc' = [cyc EXCEPT ![p].path = a.path, ![p].anyOk = TRUE,
                                         ![p].full = a.pc = "procLock"
                                                     /\ FullPositive(out.body.Result)]
    /\ UNCHANGED <<now, tickPending, serving, inbox, rnd, data, lastUpdated,
                   updateRunning, wlock, rlock, h>>

\* line 195: the next pair of the range over supportedPairs, in map order;
\* after the last pair, line 239
NextPair(p) ==
    /\ u[p].pc = "fallback"
    /\ IF u[p].todo = {}
       THEN u' = [u EXCEPT ![p].pc = "markLock", ![p].cur = ZeroPair]
       ELSE \E k \in u[p].todo :
                u' = [u EXCEPT ![p].pc = "single", ![p].attempt = 0,
                               ![p].cur = supportedPairs[k],
                               ![p].todo = @ \ {k}]
    /\ UNCHANGED <<now, tickPending, serving, inbox, rnd, data, lastUpdated,
                   updateRunning, wlock, rlock, cyc, h>>

\* a pair that cannot be decoded or reports an error ends the fallback
AfterSingleAborts(body) ==
    IF ~body.decodes \/ Len(body.Error) > 0 THEN "markLock" ELSE "procLock"

\* lines 221-235, after a request for one pair that returned a response:
\* skip the pair (continue) on a decode error or an upstream error list,
\* else call processPairResponse(pairInfo, singlePairResponse)
AfterSingle(body) ==
    IF ~body.decodes \/ Len(body.Error) > 0 THEN "fallback" ELSE "procLock"

\* lines 203-235: one attempt of the request for one pair; after the last
\* failed attempt the pair is skipped (continue)
SingleGet(p) ==
    /\ u[p].pc = "single"
    /\ \E out \in GetOutcomes :
          IF out.err
          THEN /\ IF u[p].attempt + 1 < maxRetries
                  THEN \E jitter \in rnd :
                          u' = [u EXCEPT ![p].attempt = @ + 1,
                                         ![p].sleep = backoffTime(u[p].attempt + 1)
                                                      + jitter]
                  ELSE u' = [u EXCEPT ![p].pc = "fallback", ![p].attempt = 0,
                                      ![p].sleep = 0]
               /\ UNCHANGED cyc
          ELSE /\ u' = [u EXCEPT ![p].pc = AfterSingle(out.body),
                                 ![p].attempt = 0, ![p].sleep = 0,
                                 ![p].resp = IF AfterSingle(out.body) = "procLock"
                                             THEN out.body ELSE NilBody]
               /\ cyc' = [cyc EXCEPT ![p].anyOk = TRUE]
    /\ UNCHANGED <<now, tickPending, serving, inbox, rnd, data, lastUpdated,
                   updateRunning, wlock, rlock, h>>

\* line 268: priceCache.Lock() in processPairResponse
ProcLock(p) ==
    /\ u[p].pc = "procLock"
    /\ CanLock
    /\ wlock' = {p}
    /\ u' = [u EXCEPT ![p].pc = "procBody"]
    /\ UNCHANGED <<now, tickPending, serving, inbox, rnd, data, lastUpdated,
                   updateRunning, rlock, cyc, h>>

\* lines 271-333 and the deferred Unlock; then back to the caller: the next
\* pair of the fallback, or line 261 after a combined response
ProcBody(p) ==
    /\ u[p].pc = "procBody"
    /\ data' = processPairResponse(data, u[p].cur, u[p].resp)
    /\ wlock' = {}
    /\ u' = [u EXCEPT ![p].pc = IF u[p].cur.Display # <<>> THEN "fallback"
                                 ELSE "markLock",
                      ![p].resp = NilBody]
    /\ UNCHANGED <<now, tickPending, serving, inbox, rnd, lastUpdated,
                   updateRunning, rlock, cyc, h>>

\* lines 239 and 261: priceCache.Lock()
MarkLock(p) ==
    /\ u[p].pc = "markLock"
    /\ CanLock
    /\ wlock' = {p}
    /\ u' = [u EXCEPT ![p].pc = "markBody"]
    /\ UNCHANGED <<now, tickPending, serving, inbox, rnd, data, lastUpdated,
                   updateRunning, rlock, cyc, h>>

\* the assignment lost: lastUpdated keeps its value
MarkTimeKept(t, last) == last

\* lines 240 and 262: the value assigned to priceCache.lastUpdated
MarkTime(t, last) == t

\* lines 240-243 and 262-264: lastUpdated = time.Now(); Unlock; return
MarkBody(p) ==
    /\ u[p].pc = "markBody"
    /\ lastUpdated' = MarkTime(now, lastUpdated)
    /\ wlock' = {}
    /\ u' = [u EXCEPT ![p].pc = ExitPc(p, cyc[p].path)]
    /\ cyc' = [cyc EXCEPT ![p].marked = TRUE]
    /\ UNCHANGED <<now, tickPending, serving, inbox, rnd, data, updateRunning,
                   rlock, h>>

\* line 139: priceCache.Lock() in the deferred function
Defer(p) ==
    /\ u[p].pc = "defer"
    /\ CanLock
    /\ wlock' = {p}
    /\ u' = [u EXCEPT ![p].pc = "deferBody"]
    /\ UNCHANGED <<now, tickPending, serving, inbox, rnd, data, lastUpdated,
                   updateRunning, rlock, cyc, h>>

\* lines 140-141: updateRunning = false; Unlock; updatePriceCache has
\* returned (in main, the ticker loop and the server start after the first)
DeferBody(p) ==
    /\ u[p].pc = "deferBody"
    /\ updateRunning' = FALSE
    /\ wlock' = {}
    /\ u' = [u EXCEPT ![p] = [IdleU EXCEPT !.pc = Returned(p)]]
    /\ cyc' = [cyc EXCEPT ![p] = NoCycle]
    /\ serving' = (serving \/ p = Ticker)
    /\ UNCHANGED <<now, tickPending, inbox, rnd, data, lastUpdated, rlock, h>>

(* ------------------------------- main ---------------------------------- *)
\* the clock advances by one ticker period; the ticker, once created,
\* leaves a tick in its channel of capacity one
Tick ==
    /\ now < StartTime + MaxTicks * TickerPeriod
    /\ now' = now + TickerPeriod
    /\ tickPending' = serving
    /\ UNCHANGED <<serving, inbox, rnd, data, lastUpdated, updateRunning, wlock,
                   rlock, u, cyc, h>>

\* lines 67-68: for range ticker.C { updatePriceCache() }
TickerFire ==
    /\ u[Ticker].pc = "wait"
    /\ tickPending
    /\ tickPending' = FALSE
    /\ u' = [u EXCEPT ![Ticker].pc = "call"]
    /\ UNCHANGED <<now, serving, inbox, rnd, data, lastUpdated, updateRunning,
                   wlock, rlock, cyc, h>>

(* ------------------------------ handleLTP ------------------------------ *)
\* a read lock that is granted while a writer is inside
LTPBeginOverWriter(r) ==
    /\ h[r].pc = "idle"
    /\ serving
    /\ rlock' = rlock \cup {r}
    /\ \E q \in inbox : \E req \in RequestedPairs(q) :
          h' = [h EXCEPT ![r] = [IdleH EXCEPT !.pc = "locked", !.query = q,
                                              !.requestedPairs = req]]
    /\ UNCHANGED <<now, tickPending, serving, inbox, rnd, data, lastUpdated,
                   updateRunning, wlock, u, cyc>>

\* lines 89-100: the requested pairs, then priceCache.RLock()
LTPBegin(r) ==
    /\ h[r].pc = "idle"
    /\ serving
    /\ wlock = {}
    /\ rlock' = rlock \cup {r}
    /\ \E q \in inbox : \E req \in RequestedPairs(q) :
          h' = [h EXCEPT ![r] = [IdleH EXCEPT !.pc = "locked", !.query = q,
                                              !.requestedPairs = req]]
    /\ UNCHANGED <<now, tickPending, serving, inbox, rnd, data, lastUpdated,
                   updateRunning, wlock, u, cyc>>

\* priceCache.data as a reader finds it at this moment: the map itself,
\* unless a refresher is inside processPairResponse's critical section
Visible ==
    IF \E p \in Refreshers : u[p].pc = "procBody"
    THEN UNION {MidWrite(data, processPairResponse(data, u[p].cur, u[p].resp)) :
                   p \in {x \in Refreshers : u[x].pc = "procBody"}}
    ELSE {data}

\* lines 103-116: needsUpdate, the response, RUnlock
LTPRead(r) ==
    /\ h[r].pc = "locked"
    /\ rlock' = rlock \ {r}
    /\ \E d \in Visible :
          h' = [h EXCEPT ![r].pc = "check",
                         ![r].needsUpdate = IsStale(now, lastUpdated),
                         ![r].response = Snapshot(h[r].requestedPairs, d)]
    /\ UNCHANGED <<now, tickPending, serving, inbox, rnd, data, lastUpdated,
                   updateRunning, wlock, u, cyc>>

\* go updatePriceCache() dropped: the handler answers and starts nothing
LTPCheckNoSpawn(r) ==
    /\ h[r].pc = "check"
    /\ h' = [h EXCEPT ![r] = IdleH]
    /\ UNCHANGED <<now, tickPending, serving, inbox, rnd, data, lastUpdated,
                   updateRunning, wlock, rlock, u, cyc>>

\* lines 119-125: updateRunning is read without the lock, at whatever
\* moment after RUnlock this step is taken; go updatePriceCache() (the new
\* goroutine takes the first free identity); the response built under the
\* read lock is written
LTPCheck(r) ==
    /\ h[r].pc = "check"
    /\ IF h[r].needsUpdate /\ ~updateRunning
       THEN \E gr \in Goroutines :
               /\ u[gr].pc = "idle"
               /\ \A other \in Goroutines : u[other].pc = "idle" => gr <= other
               /\ u' = [u EXCEPT ![gr].pc = "call"]
       ELSE UNCHANGED u
    /\ h' = [h EXCEPT ![r] = IdleH]
    /\ UNCHANGED <<now, tickPending, serving, inbox, rnd, data, lastUpdated,
                   updateRunning, wlock, rlock, cyc>>

(* --------------------------- specifications ---------------------------- *)
LowerUSD == <<"b","t","c","/","u","s","d">>

\* the requests made of the running service
ServiceQueries == { <<LowerUSD, Display(USD)>> }

\* the service as main starts it: an empty cache, the zero lastUpdated,
\* main about to make the first call of updatePriceCache; the jitter of the
\* backoff sleeps, far below the resolution of the clock, is held at 0
Init ==
    /\ now = StartTime
    /\ tickPending = FALSE
    /\ serving = FALSE
    /\ inbox = ServiceQueries
    /\ rnd = {0}
    /\ data = NoResult
    /\ lastUpdated = 0
    /\ updateRunning = FALSE
    /\ wlock = {}
    /\ rlock = {}
    /\ u = [p \in Refreshers |-> IF p = Ticker THEN [IdleU EXCEPT !.pc = "call"]
                                 ELSE IdleU]
    /\ cyc = [p \in Refreshers |-> NoCycle]
    /\ h = [r \in Readers |-> IdleH]

updatePriceCache(p) ==
    \/ Call(p) \/ Admit(p) \/ BatchGet(p) \/ NextPair(p) \/ SingleGet(p)
    \/ ProcLock(p) \/ ProcBody(p) \/ MarkLock(p) \/ MarkBody(p)
    \/ Defer(p) \/ DeferBody(p)

handleLTP(r) == LTPBegin(r) \/ LTPRead(r) \/ LTPCheck(r)

Next ==
    \/ \E p \in Refreshers : updatePriceCache(p)
    \/ \E r \in Readers : handleLTP(r)
    \/ Tick
    \/ TickerFire

Spec == Init /\ [][Next]_vars

\* the steps of an admitted cycle that wait for nothing, and those that
\* wait for the write lock
CycleStep ==
    \E p \in Refreshers :
        BatchGet(p) \/ NextPair(p) \/ SingleGet(p) \/ ProcBody(p)
        \/ MarkBody(p) \/ DeferBody(p)

CycleLockStep == \E p \in Refreshers : ProcLock(p) \/ MarkLock(p) \/ Defer(p)

\* the steps in which another holder of the lock leaves its critical section
LockedStep ==
    \/ \E p \in Refreshers : Admit(p)
    \/ \E r \in Readers : LTPRead(r)

\* scheduling: a goroutine that can take a step eventually takes it (an
\* upstream call returns within the client's timeout, a sleep ends, a
\* critical section is left), and a cycle waiting for the write lock gets
\* it (sync.RWMutex holds back new readers while a writer waits)
FairSpec ==
    /\ Spec
    /\ WF_vars(CycleStep)
    /\ SF_vars(CycleLockStep)
    /\ WF_vars(LockedStep)

\* scheduling that promises nothing about the upstream: a goroutine inside
\* a critical section of priceCache leaves it, and a request that calls
\* RLock gets the read lock if it is free again and again; an upstream call
\* may never return
LockFairSpec ==
    /\ Spec
    /\ WF_vars(\E p \in Refreshers :
                   Admit(p) \/ ProcBody(p) \/ MarkBody(p) \/ DeferBody(p))
    /\ SF_vars(\E r \in Readers : LTPBegin(r))

\* main's first call of updatePriceCache alone, before the server and the
\* ticker start, with every value of the jitter
BackoffInit ==
    /\ now = StartTime
    /\ tickPending = FALSE
    /\ serving = FALSE
    /\ inbox = ServiceQueries
    /\ rnd = Jitters
    /\ data = NoResult
    /\ lastUpdated = 0
    /\ updateRunning = FALSE
    /\ wlock = {}
    /\ rlock = {}
    /\ u = [p \in Refreshers |-> IF p = Ticker THEN [IdleU EXCEPT !.pc = "call"]
                                 ELSE IdleU]
    /\ cyc = [p \in Refreshers |-> NoCycle]
    /\ h = [r \in Readers |-> IdleH]

BackoffNext == updatePriceCache(Ticker)

BackoffSpec == BackoffInit /\ [][BackoffNext]_vars

\* the amounts a refresh can store: those the price strings of the upstream
\* responses scan to
Amounts == {Sscanf(str).price : str \in {<<"7">>, <<"a","b","c">>}}

\* the caches a test can set up: any supported pairs, each with its entry
CacheStates ==
    UNION { {[k \in S |-> [Pair |-> k, Amount |-> f[k]]] : f \in [S -> Amounts]} :
            S \in SUBSET DOMAIN supportedPairs }

JPY == <<"J","P","Y">>

\* the requests of TestLTPEndpoint (all pairs, one pair, two pairs, an
\* unsupported pair) and requests with a repeated or lower-case pair
ReadQueries ==
    { <<>>,
      <<Display(USD)>>,
      <<Display(USD), Display(EUR)>>,
      <<Display(JPY)>>,
      <<Display(USD), Display(CHF), Display(EUR)>>,
      <<LowerUSD, Display(USD)>>,
      <<Display(EUR), Display(JPY), Display(EUR)>> }

\* handleLTP as TestLTPEndpoint drives it: the cache filled in under the
\* lock, lastUpdated = time.Now(), no refresh running
ReadInit ==
    /\ now = StartTime
    /\ tickPending = FALSE
    /\ serving = TRUE
    /\ inbox = ReadQueries
    /\ rnd = {0}
    /\ data \in CacheStates
    /\ lastUpdated = now
    /\ updateRunning = FALSE
    /\ wlock = {}
    /\ rlock = {}
    /\ u = [p \in Refreshers |-> IdleU]
    /\ cyc = [p \in Refreshers |-> NoCycle]
    /\ h = [r \in Readers |-> IdleH]

ReadNext == \E r \in Readers : handleLTP(r)

ReadSpec == ReadInit /\ [][ReadNext]_vars

(* ------------------------------ properties ----------------------------- *)
Supported == DOMAIN supportedPairs

ExitPcs == {"defer", "deferBody"}

\* C1: at most one call of updatePriceCache is between its admission and
\* its deferred clearing of updateRunning, and a call that finds
\* updateRunning set under the lock returns without being admitted
C1_SingleFlight ==
    [][ /\ \A p, q \in Refreshers : Admitted(p)' /\ Admitted(q)' => p = q
        /\ \A p \in Refreshers :
              (u[p].pc = "admit" /\ updateRunning /\ u'[p] # u[p])
                  => (u'[p].pc = Returned(p) /\ updateRunning') ]_vars

\* one call in its cycle while another, holding the lock, finds the flag set
C1_Witness ==
    \E p, q \in Refreshers :
        p # q /\ Admitted(p) /\ u[q].pc = "admit" /\ updateRunning

\* C2: every admitted cycle has written lastUpdated when it reaches its
\* exit, whichever exit path it took
C2_EveryExitMarks ==
    \A p \in Refreshers : u[p].pc \in ExitPcs => cyc[p].marked

\* C3: updateRunning is set exactly while one admitted cycle is on its way
\* to the deferred clearing; the step that ends a cycle, on whichever exit
\* path, is the one step that clears the flag; and every admitted cycle
\* ends, so that the flag is never left set
C3_FlagAlwaysCleared ==
    /\ [][ /\ updateRunning' <=> \E p \in Refreshers : Admitted(p)'
           /\ \A p \in Refreshers :
                 (Admitted(p) /\ ~Admitted(p)')
                     <=> (u[p].pc = "deferBody" /\ updateRunning
                          /\ ~updateRunning') ]_vars
    /\ updateRunning ~> ~updateRunning

\* after main's first cycle has ended, a later call has been admitted and
\* is about to clear the flag on the upstream-error return
C3_Witness ==
    /\ serving
    /\ \E p \in Refreshers :
          u[p].pc = "deferBody" /\ cyc[p].path = "upstreamError"

\* C4: while an admitted cycle has had no upstream call return a response,
\* no step changes an entry; such a cycle leaves through the write of
\* lastUpdated, which moves it forward to the clock of that moment
C4_FailedCycleKeepsEntries ==
    [][ \A p \in Refreshers :
          /\ (Admitted(p) /\ ~cyc[p].anyOk) => data' = data
          /\ (u[p].pc \notin ExitPcs /\ u'[p].pc \in ExitPcs
              /\ ~cyc'[p].anyOk)
                 => (u[p].pc = "markBody" /\ lastUpdated' = now
                     /\ lastUpdated' >= lastUpdated) ]_vars

\* a cycle whose twelve upstream calls all failed is at its exit: the
\* entries of an earlier cycle are in place and lastUpdated is the clock's
C4_Witness ==
    \E p \in Refreshers :
        /\ u[p].pc = "defer" /\ ~cyc[p].anyOk /\ cyc[p].path = "fallback"
        /\ DOMAIN data = Supported
        /\ lastUpdated = now

\* C5: a cycle whose combined response carried an upstream error list does
\* not end there: it is never at its exit on that path
C5_ErrorListFallsBack ==
    \A p \in Refreshers :
        cyc[p].path = "upstreamError" => u[p].pc \notin ExitPcs

\* the ticker found for a pair yields no price: no key matches, the c array
\* is empty, or c[0] is no number
NoPrice(result, pairInfo) ==
    \/ ~Resolves(result, pairInfo)
    \/ ~Sscanf(FindTicker(result, pairInfo).ticker.C[1]).ok

\* the pairs one run of processPairResponse looks up
LookedUp(singlePair) ==
    IF singlePair.Display # <<>> THEN {singlePair.Display} ELSE Supported

\* the entry of a pair, or the absence of one
EntryOf(d, k) == IF k \in DOMAIN d THEN <<d[k]>> ELSE <<>>

\* C6: processPairResponse leaves the entry of a pair unchanged when the
\* response has no usable price for it
C6_NoPriceKeepsEntry ==
    [][ \A p \in Refreshers :
          (u[p].pc = "procBody" /\ u'[p].pc # "procBody") =>
             \A k \in LookedUp(u[p].cur) :
                NoPrice(u[p].resp.Result, supportedPairs[k])
                    => EntryOf(data', k) = EntryOf(data, k) ]_vars

\* C9 as stated: a price under either key is stored under the display name,
\* and a pair with neither key keeps its entry or its absence
C9_EitherKeyStored ==
    [][ \A p \in Refreshers :
          (u[p].pc = "procBody" /\ u'[p].pc # "procBody") =>
             \A k \in LookedUp(u[p].cur) :
                LET result == u[p].resp.Result
                    plain == krakenPair(supportedPairs[k])
                    alt == altKrakenPair(supportedPairs[k])
                    prices == {PriceAt(result, key) :
                                  key \in {x \in {plain, alt} : HasPrice(result, x)}}
                IN  /\ prices # {} =>
                          /\ k \in DOMAIN data'
                          /\ data'[k].Pair = k
                          /\ data'[k].Amount \in prices
                    /\ (plain \notin DOMAIN result /\ alt \notin DOMAIN result)
                          => EntryOf(data', k) = EntryOf(data, k) ]_vars

\* C9 as amended: the plain key decides when the response has it, the
\* marked key only when it has not
C9_FirstKeyStored ==
    [][ \A p \in Refreshers :
          (u[p].pc = "procBody" /\ u'[p].pc # "procBody") =>
             \A k \in LookedUp(u[p].cur) :
                LET result == u[p].resp.Result
                    plain == krakenPair(supportedPairs[k])
                    alt == altKrakenPair(supportedPairs[k])
                    key == IF plain \in DOMAIN result THEN plain ELSE alt
                IN  /\ HasPrice(result, key) =>
                          /\ k \in DOMAIN data'
                          /\ data'[k] = [Pair |-> k, Amount |-> PriceAt(result, key)]
                    /\ (plain \notin DOMAIN result /\ alt \notin DOMAIN result)
                          => EntryOf(data', k) = EntryOf(data, k) ]_vars

\* a combined response keyed XXBTZUSD alone has been processed: BTC/USD is
\* cached with its price and the other pairs are absent
C9_Witness ==
    \E p \in Refreshers :
        /\ u[p].pc = "markLock" /\ cyc[p].path = "batch"
        /\ DOMAIN data = {Display(USD)}
        /\ data[Display(USD)] = [Pair |-> Display(USD), Amount |-> 7]

\* C10: every key of priceCache.data is the display name of a supported
\* pair, and names the entry stored under it
C10_KeysSupported ==
    /\ DOMAIN data \subseteq Supported
    /\ \A k \in DOMAIN data : data[k].Pair = k

\* a response that carries an unknown symbol has been processed (the zero
\* amount is written from that response alone) and other pairs are cached
C10_Witness ==
    /\ Display(USD) \in DOMAIN data
    /\ data[Display(USD)].Amount = 0
    /\ Display(EUR) \in DOMAIN data

\* a pair is requested: by a query value of any case, or by default when
\* the request has no query value
Requested(q, k) == Len(q) = 0 \/ \E j \in 1..Len(q) : ToUpper(q[j]) = k

\* the step of handleLTP that builds the response
Reads(r) == h[r].pc = "locked" /\ h'[r].pc = "check"

\* C7: the response holds the cached entry of every pair that is requested,
\* supported and cached, of no other pair, and of no pair twice
C7_ResponseExact ==
    [][ \A r \in Readers :
          Reads(r) =>
             LET q == h[r].query
                 resp == h'[r].response
             IN  /\ \A i \in 1..Len(resp) :
                       /\ Requested(q, resp[i].Pair)
                       /\ resp[i].Pair \in Supported
                       /\ resp[i].Pair \in DOMAIN data
                       /\ resp[i] = data[resp[i].Pair]
                 /\ \A k \in Supported \cap DOMAIN data :
                       Requested(q, k) => \E i \in 1..Len(resp) : resp[i].Pair = k
                 /\ \A i, j \in 1..Len(resp) :
                       resp[i].Pair = resp[j].Pair => i = j ]_vars

\* the entries of a response, as a set
EntrySet(resp) == {resp[i] : i \in 1..Len(resp)}

\* C8: a request with no pair value is answered with the same set of
\* entries as a request that lists every supported pair, in any order
C8_EmptyMeansAll ==
    [][ \A r \in Readers :
          (Reads(r) /\ Len(h[r].query) = 0) =>
             \A all \in KeyOrders :
                EntrySet(h'[r].response) = EntrySet(Snapshot(all, data)) ]_vars

\* a request with no pair value has been answered from a cache that holds
\* two of the three pairs
C8_Witness ==
    \E r \in Readers :
        /\ h[r].pc = "check" /\ Len(h[r].query) = 0
        /\ Len(h[r].response) = 2
        /\ Cardinality(DOMAIN data) = 2

\* the refreshers that hold a response and are waiting for, or are inside,
\* the critical section of processPairResponse
Writing == {p \in Refreshers : u[p].pc \in {"procLock", "procBody"}}

\* C11: every entry of a response is, whole, the cached entry of its pair
\* as it was before or as it is after a write in progress; the read section
\* and the write section never overlap
C11_NoTornEntry ==
    [][ \A r \in Readers :
          Reads(r) =>
             /\ \A p \in Refreshers : u[p].pc # "procBody"
             /\ \A i \in 1..Len(h'[r].response) :
                   LET e == h'[r].response[i]
                   IN  /\ e.Pair \in Supported
                       /\ \/ e.Pair \in DOMAIN data /\ e = data[e.Pair]
                          \/ \E p \in Writing :
                                LET post == processPairResponse(data, u[p].cur,
                                                                u[p].resp)
                                IN  e.Pair \in DOMAIN post /\ e = post[e.Pair]
          ]_vars

\* a read has returned the entry of BTC/USD as it was, amount 7, while a
\* refresher waits at the lock with a response that replaces it by amount 0
C11_Witness ==
    \E r \in Readers, p \in Refreshers :
        /\ h[r].pc = "check"
        /\ Len(h[r].response) > 0 /\ h[r].response[1].Amount = 7
        /\ u[p].pc = "procLock"
        /\ processPairResponse(data, u[p].cur, u[p].resp)[Display(USD)].Amount = 0

\* the positions at which a refresher is between a Lock and its Unlock
LockedPcs == {"admit", "procBody", "markBody", "deferBody"}

\* C12: the write lock is held only inside the four short critical sections
\* of the refresh, never at an upstream call or a backoff sleep, and a
\* request that asks for the read lock gets it, whatever the upstream does
C12_NoLockAcrossIO ==
    /\ [](\A p \in Refreshers :
             /\ p \in wlock => u[p].pc \in LockedPcs
             /\ u[p].pc \in {"batch", "single", "fallback"} => p \notin wlock)
    /\ \A r \in Readers : (serving /\ h[r].pc = "idle") ~> (h[r].pc = "locked")

\* a request is inside its read section while the refresh in flight is at
\* the last attempt of a pair's upstream call
C12_Witness ==
    \E r \in Readers, p \in Refreshers :
        /\ h[r].pc = "locked"
        /\ u[p].pc = "single" /\ u[p].attempt = maxRetries - 1
        /\ updateRunning

\* the step of handleLTP after its read section: lines 119-125
Answers(r) == h[r].pc = "check" /\ h'[r].pc # "check"

FlagWriters ==
    {p \in Refreshers :
        \/ u[p].pc = "admit" /\ ~Denied(updateRunning)
        \/ u[p].pc = "deferBody"}

\* C14: every step that reads the entries, lastUpdated or updateRunning is
\* taken by a holder of the read or the write lock, every step that writes
\* one of them by the holder of the write lock, and no request is about to
\* read updateRunning while a refresher is about to write it
C14_AllAccessLocked ==
    /\ [][ /\ \A r \in Readers :
                /\ Reads(r) => r \in rlock
                /\ (Answers(r) /\ h[r].needsUpdate) => r \in rlock
           /\ \A p \in Refreshers :
                (u[p].pc = "admit" /\ u'[p].pc # "admit") => p \in wlock
           /\ (data' # data \/ lastUpdated' # lastUpdated
                  \/ updateRunning' # updateRunning)
                 => \E p \in wlock : u'[p] # u[p] ]_vars
    /\ [](\A r \in Readers :
             (h[r].pc = "check" /\ h[r].needsUpdate) => FlagWriters = {})

\* the cache holds an entry with a positive amount for every supported pair
AllPositive(d) ==
    /\ DOMAIN d = Supported
    /\ \A k \in Supported : d[k].Pair = k /\ d[k].Amount > 0

\* C15: a call whose combined request returned, with an empty error list, a
\* positive price for every supported pair has stored an entry with a
\* positive amount for every pair and has then set lastUpdated to the
\* clock, so that the cache is not stale; the entries are in place when
\* the call returns
C15_FullBatchFillsCache ==
    [][ \A p \in Refreshers :
          cyc[p].full =>
             /\ (u[p].pc = "procBody" /\ u'[p].pc # "procBody") =>
                   /\ AllPositive(data')
                   /\ u'[p].pc = "markLock"
             /\ (u[p].pc = "markBody" /\ u'[p].pc # "markBody") =>
                   /\ AllPositive(data')
                   /\ lastUpdated' = now
                   /\ ~(now - lastUpdated' > 60)
             /\ (u[p].pc = "deferBody" /\ u'[p].pc # "deferBody") =>
                   /\ cyc[p].marked
                   /\ AllPositive(data')
                   /\ lastUpdated' <= now /\ lastUpdated' > 0 ]_vars

\* main's first call, on a cache that was empty, is about to return after
\* a combined response with a price for every pair
C15_Witness ==
    /\ u[Ticker].pc = "deferBody" /\ cyc[Ticker].full
    /\ ~serving
    /\ \A k \in Supported : k \in DOMAIN data /\ data[k].Amount = 7
    /\ lastUpdated = now

\* the upstream calls a cycle can make at most: three combined requests and
\* three requests for each supported pair
MaxCalls == maxRetries + maxRetries * Cardinality(Supported)

\* the upstream calls a cycle can still make from where it is
CallsLeft(p) ==
    CASE u[p].pc = "batch" ->
            (maxRetries - u[p].attempt) + maxRetries * Cardinality(Supported)
      [] u[p].pc = "single" ->
            (maxRetries - u[p].attempt) + maxRetries * Cardinality(u[p].todo)
      [] u[p].pc = "fallback" \/ u[p].cur.Display # <<>> ->
            maxRetries * Cardinality(u[p].todo)
      [] OTHER -> 0

\* C16: a cycle is admitted with twelve upstream calls to go; each step at
\* a request is one call and takes at least one off, and no step of the
\* cycle adds any; the combined request is tried again only after a
\* transport error and at most three times, the fallback is entered only
\* from the third failed attempt, a pair is left after its third failed
\* attempt; and a cycle that starts its requests reaches its return
C16_BoundedCalls ==
    /\ [][ \A p \in Refreshers :
            /\ (u[p].pc = "admit" /\ Admitted(p)') => CallsLeft(p)' = MaxCalls
            /\ (Admitted(p) /\ Admitted(p)') => CallsLeft(p)' <= CallsLeft(p)
            /\ (u[p].pc \in {"batch", "single"} /\ u'[p] # u[p])
                  => CallsLeft(p)' < CallsLeft(p)
            /\ u'[p].attempt < maxRetries
            /\ (u[p].pc = "batch" /\ u'[p].pc = "batch" /\ u'[p] # u[p])
                  => (~cyc'[p].anyOk /\ u'[p].attempt = u[p].attempt + 1)
            /\ (u[p].pc = "batch" /\ u'[p].pc = "fallback")
                  => (~cyc'[p].anyOk /\ u[p].attempt = maxRetries - 1
                      /\ u'[p].todo = Supported)
            /\ (u[p].pc = "batch" /\ cyc'[p].anyOk)
                  => u'[p].pc \notin {"batch", "fallback", "single"}
            /\ (u[p].pc = "single" /\ u'[p].pc = "single" /\ u'[p] # u[p])
                  => u'[p].attempt = u[p].attempt + 1 ]_vars
    /\ (\E p \in Refreshers : u[p].pc = "batch")
          ~> (\E p \in Refreshers : u[p].pc \in ExitPcs)

\* a cycle has made its twelfth call: the three combined requests and the
\* three requests for each pair have all failed
C16_Witness ==
    \E p \in Refreshers :
        /\ u[p].pc = "fallback" /\ u[p].todo = {} /\ u[p].cur.Display # <<>>
        /\ cyc[p].path = "fallback" /\ ~cyc[p].anyOk
        /\ CallsLeft(p) = 0

\* C17: a combined request answered with an upstream error list counts as
\* a failed attempt: while fewer than maxRetries attempts have been made
\* the request is made again, and after the last one the fallback is
\* entered, as after a transport error
C17_ErrorListRetried ==
    [][ \A p \in Refreshers :
          (u[p].pc = "batch" /\ cyc'[p].path = "upstreamError") =>
             IF u[p].attempt + 1 < maxRetries
             THEN u'[p].pc = "batch" /\ u'[p].attempt = u[p].attempt + 1
             ELSE u'[p].pc = "fallback" ]_vars

\* C18: in the fallback each supported pair is taken up once, whatever
\* became of the pairs before it, and the cycle goes on to write
\* lastUpdated only when none is left; a pair that is skipped (all attempts
\* failed, no decodable body, an upstream error list) leaves every entry
\* as it is and the cycle turns to the next pair; a pair whose response is
\* processed has its entry replaced by the price found for it, the other
\* entries stay, and the cycle turns to the next pair
C18_FallbackPairsIndependent ==
    [][ \A p \in Refreshers :
          /\ (u[p].pc = "batch" /\ u'[p].pc = "fallback") => u'[p].todo = Supported
          /\ (u[p].pc = "fallback" /\ u'[p] # u[p]) =>
                IF u[p].todo = {}
                THEN u'[p].pc = "markLock"
                ELSE /\ u'[p].pc = "single"
                     /\ u'[p].cur.Display \in u[p].todo
                     /\ u'[p].todo = u[p].todo \ {u'[p].cur.Display}
          /\ (u[p].pc = "single" /\ u'[p] # u[p]) =>
                /\ u'[p].pc \in {"single", "fallback", "procLock"}
                /\ u'[p].todo = u[p].todo /\ u'[p].cur = u[p].cur
                /\ data' = data
          /\ (u[p].pc \in {"procLock", "procBody"} /\ u[p].cur.Display # <<>>
              /\ u'[p] # u[p]) =>
                /\ u'[p].todo = u[p].todo
                /\ u'[p].pc \in {"procBody", "fallback"}
          /\ (u[p].pc = "procBody" /\ u[p].cur.Display # <<>>
              /\ u'[p].pc # "procBody") =>
                LET k == u[p].cur.Display
                    result == u[p].resp.Result
                    plain == krakenPair(supportedPairs[k])
                    key == IF plain \in DOMAIN result THEN plain
                           ELSE altKrakenPair(supportedPairs[k])
                IN  /\ HasPrice(result, key) =>
                          /\ k \in DOMAIN data'
                          /\ data'[k].Amount = PriceAt(result, key)
                    /\ \A other \in Supported \ {k} :
                          EntryOf(data', other) = EntryOf(data, other) ]_vars

\* main's first cycle, on the empty cache, has been through the fallback:
\* the pair taken up last has its entry, and the two pairs taken up before
\* it have none
C18_Witness ==
    /\ ~serving /\ cyc[Ticker].path = "fallback"
    /\ u[Ticker].pc = "fallback" /\ u[Ticker].todo = {}
    /\ DOMAIN data = {u[Ticker].cur.Display}
    /\ data[u[Ticker].cur.Display].Amount = 7

\* C19 as stated: an attempt about to be made sleeps first for no time
\* when it is the first, for 100 to 200 milliseconds when it is the first
\* retry, for 200 to 300 when it is the second
C19_BackoffFromBase ==
    \A p \in Refreshers :
        u[p].pc \in {"batch", "single"} =>
            /\ u[p].attempt = 0 => u[p].sleep = 0
            /\ u[p].attempt = 1 => (100 <= u[p].sleep /\ u[p].sleep <= 200)
            /\ u[p].attempt = 2 => (200 <= u[p].sleep /\ u[p].sleep <= 300)

\* C19 as amended: no sleep before the first attempt, 200 to 299
\* milliseconds before the first retry, 400 to 499 before the second, and
\* no further attempt
C19_BackoffDoubles ==
    \A p \in Refreshers :
        /\ u[p].attempt \in 0..2
        /\ u[p].pc \in {"batch", "single"} =>
              /\ u[p].attempt = 0 => u[p].sleep = 0
              /\ u[p].attempt = 1 => (200 <= u[p].sleep /\ u[p].sleep <= 299)
              /\ u[p].attempt = 2 => (400 <= u[p].sleep /\ u[p].sleep <= 499)
        /\ u[p].pc \notin {"batch", "single"} => u[p].sleep = 0

\* the second retry of a pair's request is about to sleep for the longest
\* time there is
C19_Witness ==
    \E p \in Refreshers :
        u[p].pc = "single" /\ u[p].attempt = 2 /\ u[p].sleep = 499

\* C20: a combined response is processed in one critical section: the
\* step that ends it has written the entry of every pair the response
\* resolves, it is the one step of that cycle that changes the entries, it
\* is made by the holder of the write lock with no request in its read
\* section, and a request in its read section finds the entries as they
\* are, with none or all of those written
C20_BatchWrittenAtOnce ==
    /\ [][ \A p \in Refreshers :
            /\ (u[p].pc = "procBody" /\ u[p].cur.Display = <<>>
                /\ u'[p].pc # "procBody") =>
                  /\ wlock = {p} /\ rlock = {}
                  /\ \A k \in Supported :
                        Resolves(u[p].resp.Result, supportedPairs[k]) =>
                           /\ k \in DOMAIN data'
                           /\ data'[k] = NewEntry(u[p].resp.Result, k,
                                                   supportedPairs[k])
                  /\ \A k \in Supported :
                        ~Resolves(u[p].resp.Result, supportedPairs[k]) =>
                           EntryOf(data', k) = EntryOf(data, k)
            /\ (cyc[p].path = "batch" /\ data' # data) =>
                  (u[p].pc = "procBody" /\ u'[p].pc = "markLock")
            /\ (cyc[p].path \notin {"batch", "fallback"}) =>
                  (u'[p] # u[p] => data' = data) ]_vars
    /\ [](\A r \in Readers : h[r].pc = "locked" => Visible = {data})

\* a request is in its read section while a cycle in the fallback, the
\* first to write any entry, has stored one pair and waits at the lock with
\* the price of another: the request finds one of the cycle's updates
C20_Witness ==
    \E r \in Readers, p \in Refreshers :
        /\ h[r].pc = "locked"
        /\ lastUpdated = 0 /\ Cardinality(DOMAIN data) = 1
        /\ cyc[p].path = "fallback" /\ u[p].pc = "procLock"
        /\ u[p].cur.Display \notin DOMAIN data
        /\ Resolves(u[p].resp.Result, u[p].cur)

====
